---- MODULE Spec2Model ----
(***************************************************************************)
(* A model of the commitstreams server: the Express application of         *)
(* src/src/server.js (session authentication, the outermost error          *)
(* handler), the user routes of src/src/domains/user/api.js, and the role  *)
(* routes and the repository service of src/unnamed/part_000.              *)
(*                                                                         *)
(* The five parts of the program share no state, so each has its own       *)
(* specification over the one set of variables: SpecRole, SpecFollow,      *)
(* SpecAuth, SpecRepo and SpecErr.  A request is a record that walks       *)
(* through its middleware chain one callback at a time, so requests        *)
(* interleave exactly where the code awaits or hands over to a callback.   *)
(***************************************************************************)
EXTENDS Integers, Sequences, FiniteSets, TLC

VARIABLES
  roles,        \* the role collection: role id -> document (or absent)
  roleReq,      \* the requests to the role router, each with its position
  users,        \* follow lists of the user collection
  followReq,    \* the GET /:id/follow requests
  followCalls,  \* every invocation of followUser: <<caller, target>>
  sessionStore, \* the session store: session id -> stored session
  nextSid,      \* the next session id express-session generates
  client,       \* the browser's cookies: the session id and the userId cookie
  areq,         \* the request the authentication routes are serving
  ares,         \* its response
  pendingOps,   \* session store operations started and not yet completed
  loggedOut,    \* the session id of the latest logout answered with the redirect
  repos,        \* the repository collection: document _id -> document (or absent)
  fetch,        \* the calls of fetchGitHubRepoDetails, each with its position
  console,      \* what console.log has written: <<label, token in the value>>
  githubCalls,  \* the tokens fetchRepoDetails has been called with
  ereq          \* the error the error-handling middleware is given, and its answer

roleVars   == <<roles, roleReq>>
followVars == <<users, followReq, followCalls>>
authVars   == <<sessionStore, nextSid, client, areq, ares, pendingOps, loggedOut>>
repoVars   == <<repos, fetch, console, githubCalls>>
vars       == <<roles, roleReq, users, followReq, followCalls, sessionStore, nextSid,
                client, areq, ares, pendingOps, loggedOut, repos, fetch, console,
                githubCalls, ereq>>

(***************************************************************************)
(* Bounds of the model.                                                    *)
(***************************************************************************)
MaxRoles    == 1
MaxRoleReqs == 1
MaxUsers    == 2
MaxFollowReqs == 2
MaxSids     == 2
MaxPending  == 1
MaxFetchCalls == 2

(***************************************************************************)
(*                         THE ROLE ROUTER                                 *)
(*                    src/unnamed/part_000:118-299                         *)
(***************************************************************************)
RoleIds     == 1..MaxRoles
RoleReqIds  == 1..MaxRoleReqs
RoleNames   == {"admin", "viewer"}
PermKeys    == {"role"}
PermMaps    == [PermKeys -> BOOLEAN]

NoRole      == [present |-> FALSE, name |-> "", permissions |-> [k \in PermKeys |-> FALSE]]
RoleDoc(n, p) == [present |-> TRUE, name |-> n, permissions |-> p]

MutatingRoutes == {"POST /", "PUT /:id", "DELETE /:id", "PUT /:id/permissions"}
ReadRoutes     == {"GET /search", "GET /count", "GET /:id", "GET /:id/permissions"}
RoleRoutes     == MutatingRoutes \cup ReadRoutes

\* A DELETE /:id chain that lost its gate.
RoleChainUngated(route) ==
  CASE route = "GET /search"          -> <<"logRequest", "validateRequest", "handler">>
    [] route = "GET /count"           -> <<"logRequest", "validateRequest", "handler">>
    [] route = "POST /"               -> <<"logRequest", "isAuthorized", "validateRequest", "handler">>
    [] route = "GET /:id"             -> <<"logRequest", "validateRequest", "handler">>
    [] route = "PUT /:id"             -> <<"logRequest", "isAuthorized", "validateRequest",
                                           "validateRequest", "handler">>
    [] route = "DELETE /:id"          -> <<"logRequest", "validateRequest", "handler">>
    [] route = "GET /:id/permissions" -> <<"logRequest", "validateRequest", "handler">>
    [] route = "PUT /:id/permissions" -> <<"logRequest", "isAuthorized", "validateRequest",
                                           "validateRequest", "handler">>

\* The middleware chain each route registers, in registration order.
RoleChain(route) ==
  CASE route = "GET /search"          -> <<"logRequest", "validateRequest", "handler">>
    [] route = "GET /count"           -> <<"logRequest", "validateRequest", "handler">>
    [] route = "POST /"               -> <<"logRequest", "isAuthorized", "validateRequest", "handler">>
    [] route = "GET /:id"             -> <<"logRequest", "validateRequest", "handler">>
    [] route = "PUT /:id"             -> <<"logRequest", "isAuthorized", "validateRequest",
                                           "validateRequest", "handler">>
    [] route = "DELETE /:id"          -> <<"logRequest", "isAuthorized", "validateRequest", "handler">>
    [] route = "GET /:id/permissions" -> <<"logRequest", "validateRequest", "handler">>
    [] route = "PUT /:id/permissions" -> <<"logRequest", "isAuthorized", "validateRequest",
                                           "validateRequest", "handler">>

\* A request not yet received.
IdleRoleReq ==
  [route |-> "", id |-> 0, pos |-> 0, gate |-> "none", validated |-> 0,
   served |-> FALSE, wrote |-> FALSE, outcome |-> "idle", status |-> 0]

\* The middleware the request stands at ("" when it is not in its chain).
RoleAt(r) ==
  IF roleReq[r].outcome = "pending" /\ roleReq[r].pos \in 1..Len(RoleChain(roleReq[r].route))
    THEN RoleChain(roleReq[r].route)[roleReq[r].pos]
    ELSE ""

\* next(): hand over to the following middleware of the chain.
RoleNextMw(q) == [q EXCEPT !.pos = q.pos + 1]
\* next(error): leave the chain for the error handler, which answers with the status.
RoleNextErr(q, st) == [q EXCEPT !.outcome = "error", !.status = st]
\* res.status(st).json(...)
RoleRespond(q, st) == [q EXCEPT !.outcome = "response", !.status = st]

\* The router receives a request for one of its routes (a slot whose request has
\* been answered takes the next one).
RoleReceive(r, route, id) ==
  /\ roleReq[r].outcome # "pending"
  /\ roleReq' = [roleReq EXCEPT ![r] =
                   [IdleRoleReq EXCEPT !.route = route, !.id = id, !.pos = 1,
                                       !.outcome = "pending"]]
  /\ UNCHANGED <<roles, followVars, authVars, repoVars, ereq>>

\* logRequest({}) logs and calls next().
RoleLogRequest(r) ==
  /\ RoleAt(r) = "logRequest"
  /\ roleReq' = [roleReq EXCEPT ![r] = RoleNextMw(@)]
  /\ UNCHANGED <<roles, followVars, authVars, repoVars, ereq>>

\* isAuthorized: allow (next()) or deny (an authorization error, 401 or 403).
RoleIsAuthorized(r, allow, st) ==
  /\ RoleAt(r) = "isAuthorized"
  /\ roleReq' = [roleReq EXCEPT ![r] =
                   IF allow THEN RoleNextMw([@ EXCEPT !.gate = "allowed"])
                            ELSE RoleNextErr([@ EXCEPT !.gate = "denied"], st)]
  /\ UNCHANGED <<roles, followVars, authVars, repoVars, ereq>>

\* validateRequest({schema, ...}): next() on a valid request, a 400 error otherwise.
RoleValidateRequest(r, valid) ==
  /\ RoleAt(r) = "validateRequest"
  /\ roleReq' = [roleReq EXCEPT ![r] =
                   IF valid THEN RoleNextMw([@ EXCEPT !.validated = @ + 1])
                            ELSE RoleNextErr([@ EXCEPT !.validated = @ + 1], 400)]
  /\ UNCHANGED <<roles, followVars, authVars, repoVars, ereq>>

\* POST /: create(req.body), 201; a failure of the service goes to next(error).
RoleCreate(r, id, name, perms, fails) ==
  /\ RoleAt(r) = "handler" /\ roleReq[r].route = "POST /"
  /\ ~roles[id].present
  /\ IF fails
       THEN /\ roleReq' = [roleReq EXCEPT ![r] = RoleNextErr([@ EXCEPT !.served = TRUE], 500)]
            /\ UNCHANGED roles
       ELSE /\ roles' = [roles EXCEPT ![id] = RoleDoc(name, perms)]
            /\ roleReq' = [roleReq EXCEPT ![r] =
                             RoleRespond([@ EXCEPT !.served = TRUE, !.wrote = TRUE], 201)]
  /\ UNCHANGED <<followVars, authVars, repoVars, ereq>>

\* PUT /:id: updateById(req.params.id, req.body); 404 when there is no such role.
RoleUpdateById(r, name) ==
  /\ RoleAt(r) = "handler" /\ roleReq[r].route = "PUT /:id"
  /\ IF roles[roleReq[r].id].present
       THEN /\ roles' = [roles EXCEPT ![roleReq[r].id].name = name]
            /\ roleReq' = [roleReq EXCEPT ![r] =
                             RoleRespond([@ EXCEPT !.served = TRUE, !.wrote = TRUE], 200)]
       ELSE /\ roleReq' = [roleReq EXCEPT ![r] = RoleNextErr([@ EXCEPT !.served = TRUE], 404)]
            /\ UNCHANGED roles
  /\ UNCHANGED <<followVars, authVars, repoVars, ereq>>

\* DELETE /:id: deleteById(req.params.id), 204.
RoleDeleteById(r) ==
  /\ RoleAt(r) = "handler" /\ roleReq[r].route = "DELETE /:id"
  /\ roles' = [roles EXCEPT ![roleReq[r].id] = NoRole]
  /\ roleReq' = [roleReq EXCEPT ![r] =
                   RoleRespond([@ EXCEPT !.served = TRUE, !.wrote = roles[roleReq[r].id].present], 204)]
  /\ UNCHANGED <<followVars, authVars, repoVars, ereq>>

\* updateRolePermissions(roleId, permissionMap): the given keys are overwritten,
\* the others keep their value.
MergePermissions(old, given) ==
  [k \in PermKeys |-> IF k \in DOMAIN given THEN given[k] ELSE old[k]]

\* PUT /:id/permissions: updateRolePermissions(req.params.id, req.body.permissions).
RoleUpdatePermissions(r, given) ==
  /\ RoleAt(r) = "handler" /\ roleReq[r].route = "PUT /:id/permissions"
  /\ IF roles[roleReq[r].id].present
       THEN /\ roles' = [roles EXCEPT ![roleReq[r].id].permissions = MergePermissions(@, given)]
            /\ roleReq' = [roleReq EXCEPT ![r] =
                             RoleRespond([@ EXCEPT !.served = TRUE, !.wrote = TRUE], 200)]
       ELSE /\ roleReq' = [roleReq EXCEPT ![r] = RoleNextErr([@ EXCEPT !.served = TRUE], 404)]
            /\ UNCHANGED roles
  /\ UNCHANGED <<followVars, authVars, repoVars, ereq>>

\* The GET routes: search, count, getById and the permissions view only read.
RoleRead(r) ==
  /\ RoleAt(r) = "handler" /\ roleReq[r].route \in ReadRoutes
  /\ roleReq' = [roleReq EXCEPT ![r] =
                   IF @.route \in {"GET /:id", "GET /:id/permissions"} /\ ~roles[@.id].present
                     THEN RoleNextErr(@, 404)
                     ELSE RoleRespond(@, 200)]
  /\ UNCHANGED <<roles, followVars, authVars, repoVars, ereq>>

GivenPermMaps == UNION {[K -> BOOLEAN] : K \in SUBSET PermKeys}

RoleNext ==
  \/ \E r \in RoleReqIds, route \in RoleRoutes, id \in RoleIds : RoleReceive(r, route, id)
  \/ \E r \in RoleReqIds : RoleLogRequest(r)
  \/ \E r \in RoleReqIds, allow \in BOOLEAN, st \in {401, 403} : RoleIsAuthorized(r, allow, st)
  \/ \E r \in RoleReqIds, valid \in BOOLEAN : RoleValidateRequest(r, valid)
  \/ \E r \in RoleReqIds, id \in RoleIds, name \in RoleNames, perms \in PermMaps,
        fails \in BOOLEAN : RoleCreate(r, id, name, perms, fails)
  \/ \E r \in RoleReqIds, name \in RoleNames : RoleUpdateById(r, name)
  \/ \E r \in RoleReqIds : RoleDeleteById(r)
  \/ \E r \in RoleReqIds, given \in GivenPermMaps : RoleUpdatePermissions(r, given)
  \/ \E r \in RoleReqIds : RoleRead(r)

RoleInit ==
  /\ roles = [i \in RoleIds |-> RoleDoc("admin", [k \in PermKeys |-> TRUE])]
  /\ roleReq = [r \in RoleReqIds |-> IdleRoleReq]


(***************************************************************************)
(*                     GET /:id/follow (user router)                       *)
(*                  src/src/domains/user/api.js:60-81                      *)
(***************************************************************************)
UserIds      == 1..MaxUsers
FollowReqIds == 1..MaxFollowReqs

\* A user id is held either as a 24-digit hex string (a route parameter, a session
\* read back from the store) or as an ObjectId object (a document's _id): hex is
\* the user it designates.
IdReps  == {"string", "ObjectId"}
IdValue(rep, hex) == [rep |-> rep, hex |-> hex]
NoId    == [rep |-> "undefined", hex |-> 0]

\* A comparison by the user designated, whatever the representation.
SameUser(a, b) == a.rep \in IdReps /\ b.rep \in IdReps /\ a.hex = b.hex

\* JavaScript's ===: two strings are equal when their characters are; an object is
\* equal only to itself, never to a string nor to another object.
StrictEquals(a, b) == a.rep = "string" /\ b.rep = "string" /\ a.hex = b.hex

\* The documents of the user collection, reduced to their follow lists (the date of
\* an entry is Date.now at insertion and is left out).
NoFollows == [csFollowers |-> <<>>, csFollowing |-> <<>>]

IdleFollowReq ==
  [user |-> NoId, param |-> 0, pc |-> "idle", outcome |-> "none", status |-> 0]

\* The request arrives; passport has set req.user from the session, or left it
\* undefined when the session holds no login.
FollowReceive(r, user, target) ==
  /\ followReq[r].pc = "idle"
  /\ followReq' = [followReq EXCEPT ![r] =
                     [IdleFollowReq EXCEPT !.user = user, !.param = target, !.pc = "logRequest"]]
  /\ UNCHANGED <<users, followCalls, roleVars, authVars, repoVars, ereq>>

\* logRequest({}) logs and calls next().
FollowLogRequest(r) ==
  /\ followReq[r].pc = "logRequest"
  /\ followReq' = [followReq EXCEPT ![r].pc = "validateRequest"]
  /\ UNCHANGED <<users, followCalls, roleVars, authVars, repoVars, ereq>>

\* validateRequest({schema: idSchema, isParam: true})
FollowValidateRequest(r, valid) ==
  /\ followReq[r].pc = "validateRequest"
  /\ followReq' = [followReq EXCEPT ![r] =
                     IF valid THEN [@ EXCEPT !.pc = "handler"]
                              ELSE [@ EXCEPT !.pc = "done", !.outcome = "error", !.status = 400]]
  /\ UNCHANGED <<users, followCalls, roleVars, authVars, repoVars, ereq>>

\* The handler up to its await: req.user._id is read before the try block, so
\* without a user the async handler rejects outside its catch.  A router that
\* watches the promise a handler returns (Express 5) routes the rejection to the
\* error handler; one that does not (Express 4) leaves the request unanswered.
\* A caller whose id === req.params.id gets the 400 error; otherwise followUser
\* is called.
FollowHandler(r, routed) ==
  /\ followReq[r].pc = "handler"
  /\ LET q == followReq[r] IN
       IF q.user.rep = "undefined"
         THEN /\ followReq' = [followReq EXCEPT ![r] =
                                 IF routed
                                   THEN [@ EXCEPT !.pc = "done", !.outcome = "error",
                                                  !.status = 500]
                                   ELSE [@ EXCEPT !.pc = "done", !.outcome = "unhandled"]]
              /\ UNCHANGED followCalls
         ELSE IF StrictEquals(q.user, IdValue("string", q.param))
           THEN /\ followReq' = [followReq EXCEPT ![r] =
                                   [@ EXCEPT !.pc = "done", !.outcome = "error", !.status = 400]]
                /\ UNCHANGED followCalls
           ELSE /\ followReq' = [followReq EXCEPT ![r].pc = "followUser"]
                /\ followCalls' = followCalls \cup {<<q.user.hex, q.param>>}
  /\ UNCHANGED <<users, roleVars, authVars, repoVars, ereq>>

\* followUser(callerId, targetId) appends the target to the caller's csFollowing
\* and the caller to the target's csFollowers, looking for no entry already there.
FollowUserAppend(us, caller, target) ==
  LET one == [us EXCEPT ![caller].csFollowing = Append(@, target)]
  IN  [one EXCEPT ![target].csFollowers = Append(@, caller)]

\* followUser returns and the handler answers 200 with the result; an error the
\* service throws goes to next(error).
FollowUserService(r, fails) ==
  /\ followReq[r].pc = "followUser"
  /\ IF fails
       THEN /\ followReq' = [followReq EXCEPT ![r] =
                               [@ EXCEPT !.pc = "done", !.outcome = "error", !.status = 500]]
            /\ UNCHANGED users
       ELSE /\ users' = FollowUserAppend(users, followReq[r].user.hex, followReq[r].param)
            /\ followReq' = [followReq EXCEPT ![r] =
                               [@ EXCEPT !.pc = "done", !.outcome = "response", !.status = 200]]
  /\ UNCHANGED <<followCalls, roleVars, authVars, repoVars, ereq>>

SessionUserIds == {NoId} \cup {IdValue(rep, u) : rep \in IdReps, u \in UserIds}

FollowNext ==
  \/ \E r \in FollowReqIds, user \in SessionUserIds, target \in UserIds :
        FollowReceive(r, user, target)
  \/ \E r \in FollowReqIds : FollowLogRequest(r)
  \/ \E r \in FollowReqIds, valid \in BOOLEAN : FollowValidateRequest(r, valid)
  \/ \E r \in FollowReqIds, routed \in BOOLEAN : FollowHandler(r, routed)
  \/ \E r \in FollowReqIds, fails \in BOOLEAN : FollowUserService(r, fails)

FollowInit ==
  /\ users = [u \in UserIds |-> NoFollows]
  /\ followReq = [r \in FollowReqIds |-> IdleFollowReq]
  /\ followCalls = {}

(***************************************************************************)
(*        Session authentication: login, current user, logout and the      *)
(*        GitHub callback.   src/src/server.js:43-203                       *)
(***************************************************************************)
Sids == 1..MaxSids

\* The fields of a user record that are secrets.
SecretFields == {"password", "accessToken", "accessTokenIV"}

\* A user object as a strategy hands it over: the user it is, and which of the
\* secret fields it carries (a local account has a password hash, a GitHub
\* account an encrypted access token and its IV).
UserObj(u, fs) == [id |-> u, fields |-> fs]
NoUser   == [id |-> 0, fields |-> {}]
\* User 1 is a local account, handed over with or without its password hash;
\* user 2 is a GitHub account, handed over with its encrypted token and IV.
UserObjs == {UserObj(1, {"password"}), UserObj(1, {}),
             UserObj(2, {"accessToken", "accessTokenIV"})}

\* Errors a strategy, passport or the store may report.
NoErr   == [name |-> "", message |-> "", HTTPStatus |-> 0]
ErrObjs == {[name |-> "InternalOAuthError", message |-> "Failed to obtain access token",
             HTTPStatus |-> 0],
            [name |-> "MongoNetworkError", message |-> "connect ECONNREFUSED 127.0.0.1:27017",
             HTTPStatus |-> 0]}

\* info of a failed local authentication: its message may be missing.
InfoMessages == {"", "Incorrect password"}

\* A session: the login passport keeps in it (serializeUser stores the whole user
\* object) and the two fields the GitHub callback adds.
EmptySession == [exists |-> FALSE, user |-> NoUser, userId |-> 0, sessionId |-> 0]
NewSession   == [EmptySession EXCEPT !.exists = TRUE]

IdleAreq ==
  [kind |-> "none", pc |-> "idle", sid |-> 0, session |-> EmptySession, user |-> NoUser,
   auth |-> "", authUser |-> NoUser, logInErr |-> FALSE, established |-> FALSE,
   forwarded |-> NoErr, success |-> FALSE]
NoResponse ==
  [count |-> 0, kind |-> "none", status |-> 0, message |-> "", userId |-> 0,
   userFields |-> {}, location |-> "", error |-> "", cookie |-> "none"]

AuthKinds == {"login", "user", "logout", "github"}

\* express-session and passport.session() ahead of every route: the session of the
\* cookie is read from the store, or a new one with a new id is generated; req.user
\* is the login of that session (deserializeUser hands it back as stored).
AuthReceive(kind) ==
  /\ areq.pc \in {"idle", "done"}
  /\ LET known == client.sid # 0 /\ sessionStore[client.sid].exists
         sid   == IF known THEN client.sid ELSE nextSid
         sess  == IF known THEN sessionStore[client.sid] ELSE NewSession
     IN  /\ sid \in Sids
         /\ nextSid' = IF known THEN nextSid ELSE nextSid + 1
         /\ areq' = [IdleAreq EXCEPT !.kind = kind, !.pc = kind, !.sid = sid,
                                     !.session = sess, !.user = sess.user]
  /\ ares' = NoResponse
  /\ UNCHANGED <<sessionStore, client, pendingOps, loggedOut, roleVars, followVars, repoVars, ereq>>

\* The response reaches the browser: its Set-Cookie headers take effect.
Deliver(c, sid, live, res) ==
  [sid          |-> IF live THEN sid ELSE c.sid,
   userIdCookie |-> IF res.cookie = "set" THEN res.userId
                    ELSE IF res.cookie = "cleared" THEN 0 ELSE c.userIdCookie]

\* res.json(user) of a user object: every field but the omitted ones.
JsonUser(res, st, msg, u, omitted) ==
  [res EXCEPT !.count = @ + 1, !.kind = "json", !.status = st, !.message = msg,
              !.userId = u.id, !.userFields = u.fields \ omitted]

\* res.redirect(`${CLIENT_HOST}${path}?error=${error}`)
Redirect(res, path, error) ==
  [res EXCEPT !.count = @ + 1, !.kind = "redirect", !.status = 302, !.location = path,
              !.error = error]

\* req.logIn(user, cb) succeeded: the session holds the login and is in the store.
LoggedIn(q, u) ==
  [q EXCEPT !.session = [@ EXCEPT !.exists = TRUE, !.user = u], !.user = u,
            !.established = TRUE]

------------------------------------------------------------------------------
\* POST /api/login, the callback of passport.authenticate('local'): an error goes
\* to next(err), no user is answered 401 with info.message || 'Authentication
\* failed', and a user is handed to req.logIn.
LoginAuthenticated(err, user, info) ==
  /\ areq.pc = "login"
  /\ IF err # NoErr
       THEN /\ areq' = [areq EXCEPT !.pc = "done", !.auth = "err", !.forwarded = err]
            /\ UNCHANGED <<ares, client>>
       ELSE IF user = NoUser
         THEN /\ areq' = [areq EXCEPT !.pc = "done", !.auth = "nouser"]
              /\ ares' = [ares EXCEPT !.count = @ + 1, !.kind = "json", !.status = 401,
                                      !.message = IF info # "" THEN info
                                                  ELSE "Authentication failed"]
              /\ client' = Deliver(client, areq.sid, TRUE, ares')
         ELSE /\ areq' = [areq EXCEPT !.pc = "logIn", !.auth = "user", !.authUser = user]
              /\ UNCHANGED <<ares, client>>
  /\ UNCHANGED <<sessionStore, nextSid, pendingOps, loggedOut, roleVars, followVars, repoVars, ereq>>

\* A login answer that forgets to take the password out of the user.
LoginLogInKeepsPassword(err) ==
  /\ areq.pc = "logIn" /\ areq.kind = "login"
  /\ IF err # NoErr
       THEN /\ areq' = [areq EXCEPT !.pc = "done", !.logInErr = TRUE, !.forwarded = err]
            /\ UNCHANGED <<ares, client, sessionStore>>
       ELSE /\ areq' = [LoggedIn(areq, areq.authUser) EXCEPT !.pc = "done"]
            /\ sessionStore' = [sessionStore EXCEPT ![areq.sid] = areq'.session]
            /\ ares' = JsonUser(ares, 200, "Login successful", areq.authUser, {})
            /\ client' = Deliver(client, areq.sid, TRUE, ares')
  /\ UNCHANGED <<nextSid, pendingOps, loggedOut, roleVars, followVars, repoVars, ereq>>

\* The callback of req.logIn: an error goes to next(err); otherwise the answer is
\* {message: 'Login successful', user: userWithoutPassword}.
LoginLogIn(err) ==
  /\ areq.pc = "logIn" /\ areq.kind = "login"
  /\ IF err # NoErr
       THEN /\ areq' = [areq EXCEPT !.pc = "done", !.logInErr = TRUE, !.forwarded = err]
            /\ UNCHANGED <<ares, client, sessionStore>>
       ELSE /\ areq' = [LoggedIn(areq, areq.authUser) EXCEPT !.pc = "done"]
            /\ sessionStore' = [sessionStore EXCEPT ![areq.sid] = areq'.session]
            /\ ares' = JsonUser(ares, 200, "Login successful", areq.authUser, {"password"})
            /\ client' = Deliver(client, areq.sid, TRUE, ares')
  /\ UNCHANGED <<nextSid, pendingOps, loggedOut, roleVars, followVars, repoVars, ereq>>

\* GET /api/user: 401 'Unauthorized' without req.user, otherwise req.user without
\* accessToken and accessTokenIV.
GetUser ==
  /\ areq.pc = "user"
  /\ areq' = [areq EXCEPT !.pc = "done"]
  /\ ares' = IF areq.user = NoUser
               THEN [ares EXCEPT !.count = @ + 1, !.kind = "send", !.status = 401,
                                 !.message = "Unauthorized"]
               ELSE JsonUser(ares, 200, "", areq.user, {"accessToken", "accessTokenIV"})
  /\ client' = Deliver(client, areq.sid, TRUE, ares')
  /\ UNCHANGED <<sessionStore, nextSid, pendingOps, loggedOut, roleVars, followVars, repoVars, ereq>>

------------------------------------------------------------------------------
\* GET /api/logout up to req.logout(...): username and userId are read off req.user.
LogoutStart ==
  /\ areq.pc = "logout"
  /\ areq' = [areq EXCEPT !.pc = "logoutCallback"]
  /\ UNCHANGED <<ares, client, sessionStore, nextSid, pendingOps, loggedOut,
                 roleVars, followVars, repoVars, ereq>>

\* The callback of req.logout: an error goes to next(err); otherwise
\* req.session.destroy(...) is started (its callback only logs), the userId cookie
\* is set to expire, and the handler awaits clearAuthInfo(userId).
LogoutCallback(err) ==
  /\ areq.pc = "logoutCallback"
  /\ IF err # NoErr
       THEN /\ areq' = [areq EXCEPT !.pc = "done", !.forwarded = err]
            /\ UNCHANGED <<ares, pendingOps>>
       ELSE /\ Cardinality(pendingOps) < MaxPending
            /\ areq' = [areq EXCEPT !.pc = "clearAuthInfo", !.user = NoUser,
                                    !.session = EmptySession]
            /\ pendingOps' = pendingOps \cup {[op |-> "destroy", sid |-> areq.sid,
                                               data |-> EmptySession]}
            /\ ares' = [ares EXCEPT !.cookie = "cleared"]
  /\ UNCHANGED <<client, sessionStore, nextSid, loggedOut, roleVars, followVars, repoVars, ereq>>

\* clearAuthInfo(userId) settles: the handler redirects to the login page; if it
\* rejects, the async callback ends there and nothing is sent.
LogoutRedirect(rejects) ==
  /\ areq.pc = "clearAuthInfo"
  /\ areq' = [areq EXCEPT !.pc = "done"]
  /\ IF rejects
       THEN UNCHANGED <<ares, client, loggedOut>>
       ELSE /\ ares' = Redirect(ares, "/login", "")
            /\ client' = Deliver(client, areq.sid, FALSE, ares')
            /\ loggedOut' = {areq.sid}
  /\ UNCHANGED <<sessionStore, nextSid, pendingOps, roleVars, followVars, repoVars, ereq>>

\* A started store operation completes: a destroy removes the record, a save
\* writes it; a failed one changes nothing (its callback logs the error).
StoreComplete(o, ok) ==
  /\ o \in pendingOps
  /\ pendingOps' = pendingOps \ {o}
  /\ sessionStore' = IF ~ok THEN sessionStore
                     ELSE IF o.op = "destroy"
                       THEN [sessionStore EXCEPT ![o.sid] = EmptySession]
                       ELSE [sessionStore EXCEPT ![o.sid] = o.data]
  /\ UNCHANGED <<nextSid, client, areq, ares, loggedOut, roleVars, followVars, repoVars, ereq>>

------------------------------------------------------------------------------
\* err?.name inside a template string.
ErrorName(err) == IF err = NoErr THEN "undefined" ELSE err.name

\* GET /api/auth/github/callback, the callback of passport.authenticate('github'):
\* an error or no user is redirected to /login?error=${err?.name}; a user is
\* handed to req.logIn.
GithubAuthenticated(err, user) ==
  /\ areq.pc = "github"
  /\ IF err # NoErr \/ user = NoUser
       THEN /\ areq' = [areq EXCEPT !.pc = "done",
                                    !.auth = IF err # NoErr THEN "err" ELSE "nouser"]
            /\ ares' = Redirect(ares, "/login", ErrorName(err))
            /\ client' = Deliver(client, areq.sid, TRUE, ares')
       ELSE /\ areq' = [areq EXCEPT !.pc = "logIn", !.auth = "user", !.authUser = user]
            /\ UNCHANGED <<ares, client>>
  /\ UNCHANGED <<sessionStore, nextSid, pendingOps, loggedOut, roleVars, followVars, repoVars, ereq>>

\* A req.logIn callback that goes on to next() although logIn failed.
GithubLogInFallsThrough(err) ==
  /\ areq.pc = "logIn" /\ areq.kind = "github"
  /\ IF err # NoErr
       THEN /\ areq' = [areq EXCEPT !.pc = "success", !.logInErr = TRUE]
            /\ ares' = Redirect(ares, "/login", "failed-to-authenticate")
            /\ client' = Deliver(client, areq.sid, TRUE, ares')
            /\ UNCHANGED <<sessionStore, pendingOps>>
       ELSE /\ Cardinality(pendingOps) < MaxPending
            /\ areq' = [LoggedIn(areq, areq.authUser) EXCEPT
                          !.pc = "success",
                          !.session = [@ EXCEPT !.userId = areq.authUser.id,
                                                !.sessionId = areq.sid]]
            /\ sessionStore' = [sessionStore EXCEPT ![areq.sid] =
                                  LoggedIn(areq, areq.authUser).session]
            /\ pendingOps' = pendingOps \cup {[op |-> "save", sid |-> areq.sid,
                                               data |-> areq'.session]}
            /\ UNCHANGED <<ares, client>>
  /\ UNCHANGED <<nextSid, loggedOut, roleVars, followVars, repoVars, ereq>>

\* The callback of req.logIn: a failure is redirected to
\* /login?error=failed-to-authenticate; otherwise session.userId and
\* session.sessionId are set, req.session.save(...) is started (its callback only
\* logs) and next() hands over to the success handler.
GithubLogIn(err) ==
  /\ areq.pc = "logIn" /\ areq.kind = "github"
  /\ IF err # NoErr
       THEN /\ areq' = [areq EXCEPT !.pc = "done", !.logInErr = TRUE]
            /\ ares' = Redirect(ares, "/login", "failed-to-authenticate")
            /\ client' = Deliver(client, areq.sid, TRUE, ares')
            /\ UNCHANGED <<sessionStore, pendingOps>>
       ELSE /\ Cardinality(pendingOps) < MaxPending
            /\ areq' = [LoggedIn(areq, areq.authUser) EXCEPT
                          !.pc = "success",
                          !.session = [@ EXCEPT !.userId = areq.authUser.id,
                                                !.sessionId = areq.sid]]
            /\ sessionStore' = [sessionStore EXCEPT ![areq.sid] =
                                  LoggedIn(areq, areq.authUser).session]
            /\ pendingOps' = pendingOps \cup {[op |-> "save", sid |-> areq.sid,
                                               data |-> areq'.session]}
            /\ UNCHANGED <<ares, client>>
  /\ UNCHANGED <<nextSid, loggedOut, roleVars, followVars, repoVars, ereq>>

\* The success handler: the userId cookie and the redirect to /login-success.
GithubSuccess ==
  /\ areq.pc = "success"
  /\ areq' = [areq EXCEPT !.pc = "done", !.success = TRUE]
  /\ ares' = [Redirect(ares, "/login-success", "") EXCEPT
                !.cookie = "set", !.userId = areq.user.id]
  /\ client' = Deliver(client, areq.sid, TRUE, ares')
  /\ UNCHANGED <<sessionStore, nextSid, pendingOps, loggedOut, roleVars, followVars, repoVars, ereq>>

AuthNext ==
  \/ \E kind \in AuthKinds : AuthReceive(kind)
  \/ \E err \in ErrObjs \cup {NoErr}, user \in UserObjs \cup {NoUser}, info \in InfoMessages :
        LoginAuthenticated(err, user, info)
  \/ \E err \in ErrObjs \cup {NoErr} : LoginLogIn(err)
  \/ GetUser
  \/ LogoutStart
  \/ \E err \in ErrObjs \cup {NoErr} : LogoutCallback(err)
  \/ \E rejects \in BOOLEAN : LogoutRedirect(rejects)
  \/ \E o \in pendingOps, ok \in BOOLEAN : StoreComplete(o, ok)
  \/ \E err \in ErrObjs \cup {NoErr}, user \in UserObjs \cup {NoUser} :
        GithubAuthenticated(err, user)
  \/ \E err \in ErrObjs \cup {NoErr} : GithubLogIn(err)
  \/ GithubSuccess

AuthInit ==
  /\ sessionStore = [s \in Sids |-> EmptySession]
  /\ nextSid = 1
  /\ client = [sid |-> 0, userIdCookie |-> 0]
  /\ areq = IdleAreq
  /\ ares = NoResponse
  /\ pendingOps = {}
  /\ loggedOut = {}

(***************************************************************************)
(*       The repository service: fetchGitHubRepoDetails and its helpers    *)
(*                    src/unnamed/part_000:301-496                         *)
(***************************************************************************)
FetchIds    == 1..MaxFetchCalls
\* The numeric id GitHub gives the repository asked for.
ProviderIds == {101}
\* The states a repository is seen in at GitHub: before and after a change.
Versions    == {1, 2}
\* A document is created only by a call that found none with its provider id, so
\* there are never more than one per provider id and concurrent call.
DocIds      == 1..(Cardinality(ProviderIds) * MaxFetchCalls)

IdentityFields == {"id", "node_id", "name", "full_name", "owner", "html_url", "url",
                   "created_at", "private", "fork"}
SelectedFields == {"description", "updated_at", "pushed_at", "homepage", "size",
                   "stargazers_count", "watchers_count", "language", "languages",
                   "forks_count", "archived", "disabled", "open_issues_count", "topics"}
OtherFields    == {"license", "visibility", "default_branch"}
RepoFields     == IdentityFields \cup SelectedFields \cup OtherFields
DateFields     == {"created_at", "updated_at", "pushed_at"}

\* new Date(value): the instant a timestamp string denotes, told apart from the
\* string by its offset.
ToDate(value) == 1000 + value

\* A response of the GitHub API: the repository's id, and every other field at
\* the value it has in the repository's state v (a rename changes name and
\* full_name, a push pushed_at and size, ...).
GithubResponse(id, v) == [f \in RepoFields |-> IF f = "id" THEN id ELSE v]

\* mapGithubResponseToSchema
MapGithubResponseToSchema(response) ==
  [f \in RepoFields |-> IF f \in DateFields THEN ToDate(response[f]) ELSE response[f]]

\* An update that maps the whole response.
MapWholeGithubResponseToSchema(response) ==
  [f \in RepoFields |-> IF f \in DateFields THEN ToDate(response[f]) ELSE response[f]]

\* mapSelectedGithubResponseToSchema
MapSelectedGithubResponseToSchema(response) ==
  [f \in SelectedFields |-> IF f \in DateFields THEN ToDate(response[f]) ELSE response[f]]

NoDoc == [present |-> FALSE, fields |-> [f \in RepoFields |-> 0]]

\* The token codec of the auth module: encryptToken yields the ciphertext and the
\* IV it was made with, and decryptToken gives the token back for that IV.
PlainTokens == {"gho_token_of_user_2"}
EncryptToken(token, iv) == <<"aes-256-cbc", token, iv>>
DecryptToken(accessToken, accessTokenIV) ==
  IF accessToken[3] = accessTokenIV THEN accessToken[2] ELSE ""

\* The user documents User.findById reads: user 1 is a local account and has no
\* token, user 2 a GitHub account with its encrypted token.
DbUser(u) ==
  IF u = 2 THEN [hasToken |-> TRUE, accessToken |-> EncryptToken("gho_token_of_user_2", "iv2"),
                 accessTokenIV |-> "iv2"]
           ELSE [hasToken |-> FALSE, accessToken |-> <<"", "", "">>, accessTokenIV |-> ""]

IdleFetch == [pc |-> "idle", user |-> 0, id |-> 0, v |-> 0, existing |-> 0]

\* Model.findOne({ id }): a document with that provider id, if there is one.
FindOne(id) ==
  IF \E d \in DocIds : repos[d].present /\ repos[d].fields["id"] = id
    THEN CHOOSE d \in DocIds : repos[d].present /\ repos[d].fields["id"] = id
    ELSE 0

\* findByIdAndUpdate(id, data, { new: true }): the fields of data are set, the
\* others are left; a missing document is not created.
FindByIdAndUpdate(docs, d, data) ==
  IF docs[d].present
    THEN [docs EXCEPT ![d].fields = [f \in RepoFields |->
                                       IF f \in DOMAIN data THEN data[f] ELSE @[f]]]
    ELSE docs

\* fetchGitHubRepoDetails(owner, repo, user) is called.
FetchCall(c, u) ==
  /\ fetch[c].pc = "idle"
  /\ fetch' = [fetch EXCEPT ![c] = [IdleFetch EXCEPT !.pc = "findUser", !.user = u]]
  /\ UNCHANGED <<repos, console, githubCalls, roleVars, followVars, authVars, ereq>>

\* User.findById resolves: the token is decrypted, written by console.log('token:',
\* {owner, repo, token}) and passed to fetchRepoDetails.  Without a stored token
\* decryptToken throws: the catch logs the error and throws an AppError.
FetchDecrypt(c) ==
  /\ fetch[c].pc = "findUser"
  /\ LET dbUser == DbUser(fetch[c].user)
         token  == DecryptToken(dbUser.accessToken, dbUser.accessTokenIV)
     IN  IF dbUser.hasToken
           THEN /\ console' = console \cup {<<"token:", token>>}
                /\ githubCalls' = githubCalls \cup {token}
                /\ fetch' = [fetch EXCEPT ![c].pc = "fetching"]
           ELSE /\ fetch' = [fetch EXCEPT ![c] = IdleFetch]
                /\ UNCHANGED <<console, githubCalls>>
  /\ UNCHANGED <<repos, roleVars, followVars, authVars, ereq>>

\* fetchRepoDetails settles: the response is written by console.log('response',
\* response); a rejection is logged and thrown as an AppError.
FetchResponse(c, id, v, fails) ==
  /\ fetch[c].pc = "fetching"
  /\ IF fails
       THEN /\ fetch' = [fetch EXCEPT ![c] = IdleFetch]
            /\ UNCHANGED console
       ELSE /\ console' = console \cup {<<"response", "">>}
            /\ fetch' = [fetch EXCEPT ![c] = [@ EXCEPT !.pc = "findOne", !.id = id, !.v = v]]
  /\ UNCHANGED <<repos, githubCalls, roleVars, followVars, authVars, ereq>>

\* Model.findOne({ id }).exec() resolves with the existing repository or null.
FetchFindOne(c) ==
  /\ fetch[c].pc = "findOne"
  /\ fetch' = [fetch EXCEPT ![c] =
                 [@ EXCEPT !.existing = FindOne(fetch[c].id),
                           !.pc = IF FindOne(fetch[c].id) # 0 THEN "update" ELSE "create"]]
  /\ UNCHANGED <<repos, console, githubCalls, roleVars, followVars, authVars, ereq>>

\* The existing repository is updated with the selected fields of the response.
FetchUpdate(c) ==
  /\ fetch[c].pc = "update"
  /\ repos' = FindByIdAndUpdate(repos, fetch[c].existing,
                 MapSelectedGithubResponseToSchema(GithubResponse(fetch[c].id, fetch[c].v)))
  /\ fetch' = [fetch EXCEPT ![c] = IdleFetch]
  /\ UNCHANGED <<console, githubCalls, roleVars, followVars, authVars, ereq>>

\* No repository was found: the whole response is mapped (response.license.key
\* throws when the response has no license, and the call fails), written by
\* console.log('data:', data) and saved as a new document.
FetchCreate(c, d, license) ==
  /\ fetch[c].pc = "create"
  /\ IF ~license
       THEN /\ d = 1
            /\ UNCHANGED <<repos, console>>
       ELSE /\ ~repos[d].present
            /\ \A e \in DocIds : e < d => repos[e].present
            /\ repos' = [repos EXCEPT ![d] =
                           [present |-> TRUE,
                            fields  |-> MapGithubResponseToSchema(
                                          GithubResponse(fetch[c].id, fetch[c].v))]]
            /\ console' = console \cup {<<"data:", "">>}
  /\ fetch' = [fetch EXCEPT ![c] = IdleFetch]
  /\ UNCHANGED <<githubCalls, roleVars, followVars, authVars, ereq>>

RepoNext ==
  \/ \E c \in FetchIds, u \in {1, 2} : FetchCall(c, u)
  \/ \E c \in FetchIds : FetchDecrypt(c)
  \/ \E c \in FetchIds, id \in ProviderIds, v \in Versions, fails \in BOOLEAN :
        FetchResponse(c, id, v, fails)
  \/ \E c \in FetchIds : FetchFindOne(c)
  \/ \E c \in FetchIds : FetchUpdate(c)
  \/ \E c \in FetchIds, d \in DocIds, license \in BOOLEAN : FetchCreate(c, d, license)

RepoInit ==
  /\ repos = [d \in DocIds |-> NoDoc]
  /\ fetch = [c \in FetchIds |-> IdleFetch]
  /\ console = {}
  /\ githubCalls = {}

(***************************************************************************)
(*               The outermost error-handling middleware                   *)
(*                     src/src/server.js:241-260                           *)
(***************************************************************************)
\* What next(error) may be given: null, undefined, a string, or an object with or
\* without an HTTPStatus and with any isTrusted.
ErrMessages == {"Cannot follow yourself", "Role not found", "Failed to create repository"}
NonObjectErrors ==
  {[kind |-> k, HTTPStatus |-> 0, isTrusted |-> "undefined", message |-> ""] :
     k \in {"null", "undefined", "string"}}
ObjectErrors ==
  [kind : {"object"}, HTTPStatus : {0, 400, 401, 403, 404, 500},
   isTrusted : {"undefined", "null", "true", "false"}, message : ErrMessages]
ErrorValues == NonObjectErrors \cup ObjectErrors

NoAppError  == [message |-> "", isTrusted |-> "undefined"]
UndefinedError ==
  [kind |-> "undefined", HTTPStatus |-> 0, isTrusted |-> "undefined", message |-> ""]
IdleEreq ==
  [pc |-> "idle", given |-> UndefinedError, error |-> UndefinedError,
   appError |-> NoAppError, count |-> 0, kind |-> "none", status |-> 0, errorMessage |-> ""]

\* errorHandler.handleError(error): the error as an application error, which
\* always has a message.
HandleError(error) ==
  IF error.kind = "object"
    THEN [message |-> error.message, isTrusted |-> error.isTrusted]
    ELSE [message |-> "Error Handler received a none error instance", isTrusted |-> "true"]

\* A status read off the error without a default.
HTTPStatusUndefaulted(error) ==
  IF error.kind \in {"null", "undefined"} THEN 0 ELSE error.HTTPStatus

\* error?.HTTPStatus || 500
HTTPStatusOr500(error) ==
  IF error.kind \in {"null", "undefined"} THEN 500
  ELSE IF error.HTTPStatus # 0 THEN error.HTTPStatus ELSE 500

\* next(error) reaches the middleware: an object error whose isTrusted is
\* undefined or null is marked trusted; then the handler awaits handleError.
ErrorMiddleware(error) ==
  /\ ereq.pc = "idle"
  /\ ereq' = [IdleEreq EXCEPT
                !.pc = "handleError",
                !.given = error,
                !.error = IF error.kind = "object" /\ error.isTrusted \in {"undefined", "null"}
                            THEN [error EXCEPT !.isTrusted = "true"] ELSE error]
  /\ UNCHANGED <<roleVars, followVars, authVars, repoVars>>

\* handleError resolves and the answer is sent:
\* res.status(error?.HTTPStatus || 500).json({...appError, errorMessage}).end()
ErrorRespond ==
  /\ ereq.pc = "handleError"
  /\ LET appError == HandleError(ereq.error)
     IN  ereq' = [ereq EXCEPT !.pc = "done", !.appError = appError, !.count = @ + 1,
                              !.kind = "json", !.status = HTTPStatusOr500(ereq.error),
                              !.errorMessage = appError.message]
  /\ UNCHANGED <<roleVars, followVars, authVars, repoVars>>

\* The middleware is ready for the error of another request.
ErrorNextRequest ==
  /\ ereq.pc = "done"
  /\ ereq' = IdleEreq
  /\ UNCHANGED <<roleVars, followVars, authVars, repoVars>>

ErrNext ==
  \/ \E error \in ErrorValues : ErrorMiddleware(error)
  \/ ErrorRespond
  \/ ErrorNextRequest

ErrInit == ereq = IdleEreq

(***************************************************************************)
(*                          Specifications                                 *)
(***************************************************************************)
Init == RoleInit /\ FollowInit /\ AuthInit /\ RepoInit /\ ErrInit

SpecRole   == Init /\ [][RoleNext]_vars
SpecFollow == Init /\ [][FollowNext]_vars
SpecAuth   == Init /\ [][AuthNext]_vars
SpecRepo   == Init /\ [][RepoNext]_vars
SpecErr    == Init /\ [][ErrNext]_vars

(***************************************************************************)
(*                              Claims                                     *)
(***************************************************************************)
\* C1: on a mutating role route the service runs only after isAuthorized allowed
\* the request; a denied request reaches neither request validation nor the
\* service, it ends as a 401/403 error, and it has written nothing to the roles.
C1_GateBeforeService ==
  \A r \in RoleReqIds :
    /\ (roleReq[r].route \in MutatingRoutes /\ (roleReq[r].served \/ roleReq[r].wrote))
         => roleReq[r].gate = "allowed"
    /\ (roleReq[r].route \in MutatingRoutes /\ roleReq[r].validated > 0)
         => roleReq[r].gate = "allowed"
    /\ roleReq[r].gate = "denied"
         => /\ roleReq[r].validated = 0
            /\ ~roleReq[r].served
            /\ ~roleReq[r].wrote
            /\ roleReq[r].outcome = "error"
            /\ roleReq[r].status \in {401, 403}

\* A DELETE /:id request for a stored role was denied: the role is still there.
C1_Witness ==
  \E r \in RoleReqIds :
    /\ roleReq[r].route = "DELETE /:id" /\ roleReq[r].gate = "denied"
    /\ roleReq[r].outcome = "error"
    /\ roles[roleReq[r].id].present


\* The number of entries of the list s that are the user u.
Count(s, u) == Cardinality({i \in 1..Len(s) : s[i] = u})

C3_FollowIdempotent ==
  \A a, b \in UserIds :
    (a # b /\ \E r \in FollowReqIds :
                 /\ followReq[r].outcome = "response"
                 /\ followReq[r].user.hex = a /\ followReq[r].param = b)
      => /\ Count(users[a].csFollowing, b) = 1
         /\ Count(users[b].csFollowers, a) = 1

\* C4: POST /api/login establishes the session login only for a user the local
\* strategy returned: the 200 answer carries that user without its password
\* field; with no user the answer is 401 and no login is established; an error of
\* the strategy or of req.logIn goes to next(err) and nothing is answered.
C4_LoginSession ==
  areq.kind = "login" =>
    /\ areq.established => (areq.auth = "user" /\ ~areq.logInErr)
    /\ (ares.kind = "json" /\ ares.status = 200)
         => /\ areq.established
            /\ areq.session.user = areq.authUser
            /\ ares.userId = areq.authUser.id
            /\ "password" \notin ares.userFields
    /\ (areq.pc = "done" /\ areq.auth = "user" /\ ~areq.logInErr)
         => (ares.count = 1 /\ ares.kind = "json" /\ ares.status = 200)
    /\ areq.auth = "nouser"
         => (ares.count = 1 /\ ares.status = 401 /\ ~areq.established)
    /\ (areq.auth = "err" \/ areq.logInErr)
         => (areq.forwarded # NoErr /\ ares.count = 0 /\ ~areq.established)

\* A login of a user object that carries its password hash has been answered.
C4_Witness ==
  /\ areq.kind = "login" /\ areq.pc = "done"
  /\ "password" \in areq.authUser.fields
  /\ ares.status = 200 /\ ares.userId = areq.authUser.id

\* C5: GET /api/user answers 401 without a session user, and otherwise the
\* session's user with no secret field: no password hash, no accessToken and no
\* accessTokenIV, whichever strategy logged the user in.
C5_UserWithoutSecrets ==
  (areq.kind = "user" /\ areq.pc = "done")
    => IF areq.user = NoUser
         THEN ares.count = 1 /\ ares.status = 401
         ELSE /\ ares.count = 1 /\ ares.kind = "json"
              /\ ares.userId = areq.user.id
              /\ ares.userFields \cap SecretFields = {}

ErrorIndicators == {"undefined", "failed-to-authenticate"} \cup {e.name : e \in ErrObjs}

\* C7: on the GitHub callback, an authentication error, a missing user or a failed
\* req.logIn ends in exactly one redirect to the login page whose error indicator
\* is an error name or a fixed code, never an error message; the success handler
\* does not run (no userId cookie, no login-success redirect) and no login is
\* established.
C7_GithubFailureRedirect ==
  (areq.kind = "github" /\ (areq.auth \in {"err", "nouser"} \/ areq.logInErr))
    => /\ areq.pc = "done"
       /\ ares.count = 1 /\ ares.kind = "redirect" /\ ares.location = "/login"
       /\ ares.error \in ErrorIndicators
       /\ ares.error \notin {e.message : e \in ErrObjs}
       /\ ares.cookie = "none"
       /\ ~areq.success
       /\ ~areq.established

\* req.logIn failed on a GitHub callback whose authentication had yielded a user.
C7_Witness ==
  /\ areq.kind = "github" /\ areq.auth = "user" /\ areq.logInErr
  /\ ares.error = "failed-to-authenticate"

\* C8: the plaintext access token is never logged: the decrypted token is passed
\* to the GitHub fetch and appears in no console or log output.  (A repository
\* document is built from the fields of the response alone, so the log output is
\* the only place of the sync where the token could be kept.)
C8_TokenNeverLogged ==
  \A e \in console : e[2] \notin PlainTokens

\* C9: the update of an existing repository sets the selected fields to the
\* response's, leaves the identity fields (and every other field) of that
\* document as they were, touches no other document and creates none.
C9_UpdateKeepsIdentity ==
  [][\A c \in FetchIds :
       (fetch[c].pc = "update" /\ fetch'[c].pc = "idle")
         => LET d        == fetch[c].existing
                response == GithubResponse(fetch[c].id, fetch[c].v)
            IN  /\ \A e \in DocIds : repos'[e].present = repos[e].present
                /\ \A e \in DocIds \ {d} : repos'[e] = repos[e]
                /\ \A f \in RepoFields \ SelectedFields :
                      repos'[d].fields[f] = repos[d].fields[f]
                /\ repos[d].present =>
                     \A f \in SelectedFields :
                        repos'[d].fields[f] =
                          IF f \in DateFields THEN ToDate(response[f]) ELSE response[f]
    ]_vars

\* A stored repository has been updated from a response in which its identity
\* fields had changed too: it has the new description and still the old name.
C9_Witness ==
  \E d \in DocIds :
    /\ repos[d].present
    /\ repos[d].fields["description"] # repos[d].fields["name"]
    /\ repos[d].fields["updated_at"] # repos[d].fields["created_at"]

\* C10: an error given to the error-handling middleware is answered with exactly
\* one JSON response whose status is the error's HTTPStatus, or 500 when it has
\* none (null, undefined and non-object errors included), and whose body carries
\* the message of the handled error.
C10_ErrorResponse ==
  ereq.pc = "done"
    => /\ ereq.count = 1 /\ ereq.kind = "json"
       /\ ereq.status = IF ereq.given.kind = "object" /\ ereq.given.HTTPStatus # 0
                          THEN ereq.given.HTTPStatus ELSE 500
       /\ ereq.errorMessage = ereq.appError.message
       /\ ereq.errorMessage # ""

\* A null error has been answered.
C10_Witness ==
  /\ ereq.pc = "done" /\ ereq.given.kind = "null" /\ ereq.status = 500

\* C11: on a successful GitHub callback, when the login-success redirect and the
\* userId cookie are sent, the session with that user's login, userId and
\* sessionId is in the session store, so the client's next request resolves to
\* that user.
C11_SessionSavedBeforeRedirect ==
  (areq.kind = "github" /\ areq.success /\ ares.location = "/login-success")
    => /\ ares.cookie = "set" /\ ares.userId = areq.authUser.id
       /\ sessionStore[areq.sid].exists
       /\ sessionStore[areq.sid].user = areq.authUser
       /\ sessionStore[areq.sid].userId = areq.authUser.id
       /\ sessionStore[areq.sid].sessionId = areq.sid

\* C12: whatever the sequence and interleaving of fetchGitHubRepoDetails calls,
\* the repository store holds at most one document per provider id.
C12_OneRecordPerProviderId ==
  \A d1, d2 \in DocIds :
    (/\ repos[d1].present /\ repos[d2].present
     /\ repos[d1].fields["id"] = repos[d2].fields["id"])
      => d1 = d2

\* C13: a GET /:id/follow request that passed parameter validation and has run
\* to its end has exactly one outcome, the 200 response with the follow result or
\* an error handed to next; also when the request carries no authenticated user.
C13_FollowAlwaysAnswered ==
  \A r \in FollowReqIds :
    followReq[r].pc = "done"
      => \/ followReq[r].outcome = "response" /\ followReq[r].status = 200
         \/ followReq[r].outcome = "error" /\ followReq[r].status \in {400, 500}

====
